---- MODULE Spec2Model ----
(***************************************************************************)
(* State-machine model of the LINE bot backend in src/app/main.py:         *)
(*   - the money_requests table, create_money_request and reminder_loop,   *)
(*   - the processed_message_ids guard and the fan-out of                  *)
(*     process_message_async.                                              *)
(* Time is the wall clock in seconds; the store (Supabase) and the LINE    *)
(* push API are external: a store call may return or raise, a send returns *)
(* True or False (push_service.py catches every exception).                *)
(***************************************************************************)
EXTENDS Integers, Sequences, FiniteSets, TLC

\* ---------------------------------------------------------------- bounds
MaxTime == 80
TickSec == 10
MaxReq == 3
\* rows of money_requests when store calls may raise
MaxReqFault == 2
\* the history counter sends saturates here
MaxSends == 2
\* rows of money_requests when the scheduler is restarted
MaxReqLive == 2
\* restarts of the process in a run
MaxRestarts == 1

\* ------------------------------------------------------ program constants
\* create_money_request(..., delay_sec: int = 20)
DelaySec == 20
\* await asyncio.sleep(15) at the end of every reminder_loop cycle
SleepSec == 15
\* create_question_record(..., remind_seconds=30)
QuestionDelaySec == 30

\* reminded_at IS NULL
Null == -1

\* ------------------------------------------ bounds of the event handling
\* distinct message ids the webhook delivers
MaxEvents == 3
\* webhook deliveries in a run
MaxDeliveries == 4
\* webhook deliveries in a run with failing calls
MaxDeliveriesFault == 2
\* rows of table questions
MaxQuestions == 2
\* the clock stops here when the questions are checked
MaxTimeQ == 60
MaxReqSched == 2
MaxQuestionsSched == 1
\* money requests in the store when ReminderService is run
MaxReqRS == 2
\* money requests in the store when two instances of reminder_loop run
MaxReqTwo == 2
\* rows the checker services save
MaxReqChecker == 2
MaxQuestionsChecker == 2
\* process_message_async tasks alive at once
MaxTasks == 2
\* len(processed_message_ids) > 1000 starts the cleanup; scaled down
DedupCap == 2
\* list(processed_message_ids)[:500] is removed; scaled down
EvictCount == 1

EventIds == 1..MaxEvents
Slots == 1..MaxTasks
NoGroup == "none"
NoAnswer == [kind |-> "none", v |-> "none"]
Free == [pc |-> "free"]
Unresolved == [pc |-> "idle"]
\* event.source.user_id and event.source.group_id of the events
LineUsers == {"Ua", "Ub"}
LineGroups == {"Ca", "Cb"}
\* the clock of QuestionReminderService: its step and where it stops
TickInactive == 60
MaxTimeInactive == 300
\* questions in the store when QuestionReminderService runs
MaxQuestionsInactive == 2
\* calls of start_reminder_loop in a run
MaxLoops == 2
\* money requests in the store while the loop of ReminderService runs
MaxReqLoop == 1
LoopSlots == 1..MaxLoops
\* no call of start_reminder_loop was made; pc: none | created | process |
\* sleep | done, left: seconds left of the sleep, stopped: history,
\* stop_reminder_loop was called after this call was made
NoLoops == [k \in LoopSlots |-> [pc |-> "none", left |-> 0, stopped |-> FALSE]]
PeerIdle == [pc |-> "sleep", row |-> 0, success |-> FALSE, sleepLeft |-> 0]

Groups == {"g1", "g2"}
Users == {"u1"}
\* the users that are members of some group
Members == {"u1", "u2", "u3"}

VARIABLES
    now,             \* datetime.now(timezone.utc), in seconds
    groups,          \* ids present in table groups
    users,           \* ids present in table users
    money_requests,  \* table money_requests, row id = index
    remPc,           \* position of reminder_loop: sleep | send | mark | dead
    remRow,          \* row = due[0] of the running cycle (0: none)
    remSuccess,      \* success returned by the send of the running cycle
    sleepLeft,       \* seconds left of asyncio.sleep(15)
    sends,           \* history: per row id, number of sends that returned True
    lastFailed,      \* history: row whose send returned False in the last finished cycle (0: none)
    errored,         \* history: row ids whose cycle ran the except handler
    processed_message_ids,  \* the module-level set of handled event ids
    tasks,           \* the running process_message_async tasks, by slot
    messages,        \* table messages: rows per message id
    replies,         \* reply_message calls made, per message id
    llmCalls,        \* history: LLM and classifier calls made, per message id
    questions,       \* table questions, row id = index
    question_targets,  \* table question_targets, row id = index
    posted,          \* table messages of group g1: latest created_at per user
    deliveries,      \* history: webhook deliveries, per message id
    evicted,         \* history: ids removed from processed_message_ids
    restarts,        \* history: number of restarts of the process
    running,         \* ReminderService.running
    loops,           \* the calls of ReminderService.start_reminder_loop
    peer,            \* a second instance of reminder_loop on the same store
    idRows,          \* tables users and groups: the platform id of each row
    resolved,        \* what each task got from get_or_create_user/_group
    qPc,             \* position of question_reminder_loop: sleep | send | dead
    qRow,            \* question = due_questions[0] of the running cycle (0: none)
    qTodo,           \* targets_result.data not yet handled by the for loop
    qSleepLeft,      \* seconds left of its asyncio.sleep(15)
    qSends,          \* history: per target row id, reminders that returned True
    qSnap,           \* history: posted as it was when the running cycle started
    answer           \* history: the last classifier answer a task handled

eventVars == <<processed_message_ids, tasks, messages, replies, llmCalls,
               questions, question_targets, posted, deliveries, evicted>>

\* the rows keyed by platform ids and the ids the tasks obtained
idVars == <<idRows, resolved>>

\* the question_reminder_loop task and its history
qVars == <<qPc, qRow, qTodo, qSleepLeft, qSends, qSnap>>

vars == <<now, groups, users, money_requests, remPc, remRow, remSuccess,
          sleepLeft, sends, lastFailed, errored, eventVars, restarts, running, loops, peer, idVars,
          answer, qVars>>

moneyVars == <<money_requests, sends>>
schedVars == <<remPc, remRow, remSuccess, sleepLeft, lastFailed, errored>>

Ids == DOMAIN money_requests

\* ------------------------------------------------------------- the store

Due_IgnoringReminded(r, t) == r.remind_at <= t

Due_IgnoringRemindAt(r, t) == r.reminded_at = Null

\* .lte("remind_at", now_iso).is_("reminded_at", "null")
Due(r, t) == r.remind_at <= t /\ r.reminded_at = Null

DueIds(t) == {i \in Ids : Due(money_requests[i], t)}

OldestDue_Newest(t) ==
    {i \in DueIds(t) :
        \A j \in DueIds(t) : money_requests[i].remind_at >= money_requests[j].remind_at}

\* .order("remind_at").limit(1): a row of least remind_at (the store breaks ties)
OldestDue(t) ==
    {i \in DueIds(t) :
        \A j \in DueIds(t) : money_requests[i].remind_at <= money_requests[j].remind_at}

\* the duplicate guard of create_money_request:
\* .eq(group_id).eq(requester_user_id).gt("remind_at", now)
DupGuard(g, u, t) ==
    \E i \in Ids : /\ money_requests[i].group_id = g
                   /\ money_requests[i].requester_user_id = u
                   /\ money_requests[i].remind_at > t

SetReminded_Nothing(id, t) == money_requests

SetReminded_AllDue(id, t) ==
    [i \in Ids |-> IF money_requests[i].remind_at <= t
                   THEN [money_requests[i] EXCEPT !.reminded_at = t]
                   ELSE money_requests[i]]

\* .update({"reminded_at": now}).eq("id", id)
SetReminded(id, t) ==
    [money_requests EXCEPT ![id].reminded_at = t]

SkipWrite_None(id, t) == money_requests

\* the row's group or requester is gone: "marking as reminded to skip"
SkipWrite(id, t) == SetReminded(id, t)

\* group_result.data and requester_result.data are both non-empty
Resolvable(i) ==
    /\ money_requests[i].group_id \in groups
    /\ money_requests[i].requester_user_id \in users

\* ------------------------------------------------------------ operations

Tick ==
    /\ now + TickSec <= MaxTime
    /\ now' = now + TickSec
    /\ sleepLeft' = IF sleepLeft > TickSec THEN sleepLeft - TickSec ELSE 0
    /\ UNCHANGED <<groups, users, money_requests, remPc, remRow, remSuccess,
                   sends, lastFailed, errored>>

\* a referenced groups row disappears from the store
DeleteGroup(g) ==
    /\ g \in groups
    /\ groups' = groups \ {g}
    /\ UNCHANGED <<now, users, moneyVars, schedVars>>

\* a referenced users row disappears from the store
DeleteUser(u) ==
    /\ u \in users
    /\ users' = users \ {u}
    /\ UNCHANGED <<now, groups, moneyVars, schedVars>>

MoneyInsert_NoGuard(g, u) ==
    /\ money_requests' = Append(money_requests,
           [group_id |-> g, requester_user_id |-> u,
            remind_at |-> now + DelaySec, reminded_at |-> Null])
    /\ sends' = Append(sends, 0)

\* the body of create_money_request: the duplicate guard, then the insert
MoneyInsert(g, u) ==
    IF DupGuard(g, u, now)
    THEN UNCHANGED <<money_requests, sends>>
    ELSE /\ money_requests' = Append(money_requests,
                [group_id |-> g, requester_user_id |-> u,
                 remind_at |-> now + DelaySec, reminded_at |-> Null])
         /\ sends' = Append(sends, 0)

CreateMoneyRequest(g, u, cap) ==
    /\ g \in groups /\ u \in users
    /\ Len(money_requests) < cap
    /\ now + DelaySec <= MaxTime
    /\ MoneyInsert(g, u)
    /\ UNCHANGED <<now, groups, users, schedVars>>

\* the cycle is over: await asyncio.sleep(15)
EndCycle(failedRow) ==
    /\ remPc' = "sleep"
    /\ remRow' = 0
    /\ remSuccess' = FALSE
    /\ sleepLeft' = SleepSec
    /\ lastFailed' = failedRow

\* reminder_loop, from the select to the first send: the select, then the
\* groups and users lookups, then (row unresolvable) the skip write
ReminderSelect ==
    /\ remPc = "sleep" /\ sleepLeft = 0
    /\ IF DueIds(now) = {}
       THEN /\ EndCycle(0)
            /\ UNCHANGED money_requests
       ELSE \E i \in OldestDue(now) :
              IF Resolvable(i)
              THEN /\ remPc' = "send"
                   /\ remRow' = i
                   /\ UNCHANGED <<money_requests, remSuccess, sleepLeft,
                                  lastFailed>>
              ELSE /\ money_requests' = SkipWrite(i, now)
                   /\ EndCycle(0)
    /\ UNCHANGED <<now, groups, users, sends, errored>>

\* success = await push_service.send_to_line_group[_with_mentions](...)
ReminderSend ==
    /\ remPc = "send"
    /\ \E ok \in BOOLEAN :
         /\ remSuccess' = ok
         /\ sends' = IF ok /\ sends[remRow] < MaxSends
                     THEN [sends EXCEPT ![remRow] = @ + 1] ELSE sends
    /\ remPc' = "mark"
    /\ UNCHANGED <<now, groups, users, money_requests, remRow, sleepLeft,
                   lastFailed, errored>>

MarkOnSuccess_Always(success) == TRUE

MarkOnSuccess_Never(success) == FALSE

\* if success: update reminded_at
MarkOnSuccess(success) == success

ReminderMark ==
    /\ remPc = "mark"
    /\ IF MarkOnSuccess(remSuccess)
       THEN money_requests' = SetReminded(remRow, now)
       ELSE UNCHANGED money_requests
    /\ EndCycle(IF remSuccess THEN 0 ELSE remRow)
    /\ UNCHANGED <<now, groups, users, sends, errored>>

InitEvent ==
    /\ processed_message_ids = {}
    /\ tasks = [s \in Slots |-> Free]
    /\ messages = [m \in EventIds |-> 0]
    /\ replies = [m \in EventIds |-> 0]
    /\ llmCalls = [m \in EventIds |-> 0]
    /\ questions = <<>>
    /\ question_targets = <<>>
    /\ posted = [u \in Members |-> Null]
    /\ deliveries = [m \in EventIds |-> 0]
    /\ evicted = {}

Init ==
    /\ InitEvent
    /\ now = 0
    /\ groups = Groups
    /\ users = Users
    /\ money_requests = <<>>
    /\ remPc = "sleep"
    /\ remRow = 0
    /\ remSuccess = FALSE
    /\ sleepLeft = 0
    /\ sends = <<>>
    /\ lastFailed = 0
    /\ errored = {}
    /\ restarts = 0
    /\ running = FALSE
    /\ loops = NoLoops
    /\ peer = PeerIdle
    /\ idRows = [users |-> <<>>, groups |-> <<>>]
    /\ resolved = [s \in Slots |-> Unresolved]
    /\ answer = NoAnswer
    /\ qPc = "sleep"
    /\ qRow = 0
    /\ qTodo = <<>>
    /\ qSleepLeft = 0
    /\ qSends = [t \in {} |-> 0]
    /\ qSnap = [u \in Members |-> Null]

Next ==
    /\ \/ Tick
       \/ \E g \in Groups : DeleteGroup(g)
       \/ \E u \in Users : DeleteUser(u)
       \/ \E g \in Groups, u \in Users : CreateMoneyRequest(g, u, MaxReq)
       \/ ReminderSelect
       \/ ReminderSend
       \/ ReminderMark
    /\ UNCHANGED <<eventVars, restarts, running, loops, peer, idVars, answer, qVars>>

Spec == Init /\ [][Next]_vars

\* ------------------------------------------- store errors and restarts

\* except Exception: update reminded_at (in a try of its own: except: pass)
HandlerWrite(id, t, writeOk) ==
    IF writeOk THEN SetReminded(id, t) ELSE money_requests

\* the select returned a row and then a store call inside the try (groups
\* lookup, users lookup or the skip write) raised: the handler runs
ReminderLookupRaise ==
    /\ remPc = "sleep" /\ sleepLeft = 0
    /\ \E i \in OldestDue(now), writeOk \in BOOLEAN :
         /\ money_requests' = HandlerWrite(i, now, writeOk)
         /\ errored' = errored \cup {i}
    /\ EndCycle(0)
    /\ UNCHANGED <<now, groups, users, sends>>

\* the send returned True and the update of reminded_at raised: the handler runs
ReminderMarkRaise ==
    /\ remPc = "mark" /\ remSuccess
    /\ \E writeOk \in BOOLEAN :
         money_requests' = HandlerWrite(remRow, now, writeOk)
    /\ errored' = errored \cup {remRow}
    /\ EndCycle(0)
    /\ UNCHANGED <<now, groups, users, sends>>

\* the select itself raised: it is outside the try, the task ends
ReminderSelectRaise ==
    /\ remPc = "sleep" /\ sleepLeft = 0
    /\ remPc' = "dead"
    /\ UNCHANGED <<now, groups, users, money_requests, remRow, remSuccess,
                   sleepLeft, sends, lastFailed, errored>>

NextFault ==
    /\ \/ Tick
       \/ \E g \in Groups : DeleteGroup(g)
       \/ \E u \in Users : DeleteUser(u)
       \/ \E g \in Groups, u \in Users : CreateMoneyRequest(g, u, MaxReqFault)
       \/ ReminderSelect
       \/ ReminderSend
       \/ ReminderMark
       \/ ReminderLookupRaise
       \/ ReminderMarkRaise
       \/ ReminderSelectRaise
    /\ UNCHANGED <<eventVars, restarts, running, loops, peer, idVars, answer, qVars>>

SpecFault == Init /\ [][NextFault]_vars

\* ------------------------------------------- the scheduler keeps cycling

\* the clock reading has reached the horizon of the model; the sleep of the
\* loop still ends
TickBeyond ==
    /\ now + TickSec > MaxTime
    /\ sleepLeft > 0
    /\ sleepLeft' = IF sleepLeft > TickSec THEN sleepLeft - TickSec ELSE 0
    /\ UNCHANGED <<now, groups, users, money_requests, remPc, remRow,
                   remSuccess, sends, lastFailed, errored>>

TimeStep ==
    (Tick \/ TickBeyond) /\ UNCHANGED <<eventVars, restarts, running, loops, peer, idVars, answer, qVars>>

\* the steps of the reminder_loop task
SchedulerStep ==
    /\ ReminderSelect \/ ReminderSend \/ ReminderMark
    /\ UNCHANGED <<eventVars, restarts, running, loops, peer, idVars, answer, qVars>>

\* the process is stopped at any point and started again: startup_event
\* creates a new reminder_loop task, the tables are as they were, the
\* in-memory set and the running tasks are gone
Restart ==
    /\ restarts < MaxRestarts
    /\ restarts' = restarts + 1
    /\ running' = FALSE
    /\ loops' = NoLoops
    /\ peer' = PeerIdle
    /\ resolved' = [s \in Slots |-> Unresolved]
    /\ UNCHANGED idRows
    /\ remPc' = "sleep"
    /\ remRow' = 0
    /\ remSuccess' = FALSE
    /\ sleepLeft' = 0
    /\ lastFailed' = 0
    /\ processed_message_ids' = {}
    /\ tasks' = [s \in Slots |-> Free]
    /\ qPc' = "sleep"
    /\ qRow' = 0
    /\ qTodo' = <<>>
    /\ qSleepLeft' = 0
    /\ qSnap' = [u \in Members |-> Null]
    /\ UNCHANGED <<now, groups, users, money_requests, sends, errored,
                   messages, posted, replies, llmCalls, questions,
                   question_targets, deliveries, evicted, answer, qSends>>

NextLive ==
    \/ TimeStep
    \/ SchedulerStep
    \/ Restart
    \/ /\ \/ \E g \in Groups : DeleteGroup(g)
          \/ \E g \in Groups, u \in Users :
                CreateMoneyRequest(g, u, MaxReqLive)
       /\ UNCHANGED <<eventVars, restarts, running, loops, peer, idVars, answer, qVars>>

\* time passes and the event loop runs the reminder_loop task whenever it
\* can take a step
SpecLive ==
    Init /\ [][NextLive]_vars /\ WF_vars(TimeStep) /\ WF_vars(SchedulerStep)

\* ------------------------------------------------- the question tables

QIds == DOMAIN questions
TIds == DOMAIN question_targets

\* table group_members: the members of a group
GroupMembers(g) == IF g = "g1" THEN Members ELSE {"u1"}

\* the order in which a list of members is built
MemberOrder == <<"u1", "u2", "u3">>

InList(F, u) == u \in F

\* target_records of create_question_record for the question with id qid
TargetRows(qid, F) ==
    LET seq == SelectSeq(MemberOrder, LAMBDA u : InList(F, u))
    IN [k \in 1..Len(seq) |->
          [question_id |-> qid, target_user_id |-> seq[k],
           responded_at |-> Null, reminded_at |-> Null]]

FilterTargets_KeepAll(target_user_ids, q) == target_user_ids

\* filtered_targets = [uid for uid in target_user_ids if uid != questioner]
FilterTargets(target_user_ids, q) == target_user_ids \ {q}

\* the body of create_question_record; targetsOk: the insert into
\* question_targets returned (it raised otherwise)
QuestionInsert(g, q, target_user_ids, m, targetsOk) ==
    LET filtered == FilterTargets(target_user_ids, q) IN
    IF filtered = {}
    THEN UNCHANGED <<questions, question_targets>>
    ELSE /\ questions' = Append(questions,
                [group_id |-> g, questioner_user_id |-> q, message_id |-> m,
                 created_at |-> now, remind_at |-> now + QuestionDelaySec,
                 resolved_at |-> Null, reminded_at |-> Null])
         /\ question_targets' =
                IF targetsOk
                THEN question_targets \o TargetRows(Len(questions) + 1, filtered)
                ELSE question_targets

\* -------------------------------------------- process_message_async tasks

\* event.source.group_id of the event with message id m (None in a 1:1 chat)
EventGroup(m) ==
    IF m % 3 = 1 THEN "g1" ELSE IF m % 3 = 2 THEN NoGroup ELSE "g2"

\* event.source.user_id, resolved by get_or_create_user
EventUser(m) == "u1"

RECURSIVE SumUpTo(_, _)
SumUpTo(f, n) == IF n = 0 THEN 0 ELSE f[n] + SumUpTo(f, n - 1)

Delivered == SumUpTo(deliveries, MaxEvents)

FreeSlots == {s \in Slots : tasks[s].pc = "free"}

\* on_message: asyncio.create_task(process_message_async(event))
Deliver(m) ==
    /\ Delivered < MaxDeliveries
    /\ FreeSlots # {}
    /\ LET s == CHOOSE x \in FreeSlots : \A y \in FreeSlots : x <= y
       IN tasks' = [tasks EXCEPT ![s] =
                       [pc |-> "new", id |-> m, save |-> "todo",
                        reply |-> "todo", money |-> "todo",
                        question |-> "todo"]]
    /\ deliveries' = [deliveries EXCEPT ![m] = @ + 1]
    /\ UNCHANGED <<now, groups, users, moneyVars, schedVars,
                   processed_message_ids, messages, posted, replies, llmCalls,
                   questions, question_targets, evicted>>

GuardSeen_Never(m) == FALSE

\* if message_id in processed_message_ids: return
GuardSeen(m) == m \in processed_message_ids

Remember_Forget(S, m) == S

\* processed_message_ids.add(message_id)
Remember(S, m) == S \cup {m}

Evictions_None(S) == {{}}

\* old_ids = list(processed_message_ids)[:500]: the first ids in the
\* iteration order of a set, which is not the insertion order
Evictions(S) ==
    IF Cardinality(S) > DedupCap
    THEN {E \in SUBSET S : Cardinality(E) = EvictCount}
    ELSE {{}}

\* from the start of the coroutine to its first suspension: the guard, the
\* insertion, the cleanup, the sender lookups and the call of the LLM
Guard(s) ==
    /\ tasks[s].pc = "new"
    /\ LET m == tasks[s].id IN
       IF GuardSeen(m)
       THEN /\ tasks' = [tasks EXCEPT ![s] = Free]
            /\ UNCHANGED <<processed_message_ids, llmCalls, evicted>>
       ELSE /\ \E E \in Evictions(Remember(processed_message_ids, m)) :
                 /\ processed_message_ids' =
                        Remember(processed_message_ids, m) \ E
                 /\ evicted' = evicted \cup E
            /\ llmCalls' = [llmCalls EXCEPT ![m] = @ + 1]
            /\ tasks' = [tasks EXCEPT ![s].pc = "llm"]
    /\ UNCHANGED <<now, groups, users, moneyVars, schedVars, messages, posted,
                   replies, questions, question_targets, deliveries>>

\* generate_response_async returned, asyncio.gather starts the four awaitables
ReplyGenerated(s) ==
    /\ tasks[s].pc = "llm"
    /\ tasks' = [tasks EXCEPT ![s].pc = "gather"]
    /\ UNCHANGED <<now, groups, users, moneyVars, schedVars,
                   processed_message_ids, messages, posted, replies, llmCalls,
                   questions, question_targets, deliveries, evicted>>

\* save_task: one insert into table messages
SaveMessage(s) ==
    /\ tasks[s].pc = "gather" /\ tasks[s].save = "todo"
    /\ messages' = [messages EXCEPT ![tasks[s].id] = @ + 1]
    /\ posted' = IF EventGroup(tasks[s].id) = "g1"
                 THEN [posted EXCEPT ![EventUser(tasks[s].id)] = now]
                 ELSE posted
    /\ tasks' = [tasks EXCEPT ![s].save = "done"]
    /\ UNCHANGED <<now, groups, users, moneyVars, schedVars,
                   processed_message_ids, replies, llmCalls, questions, question_targets,
                   deliveries, evicted>>

\* do_reply: MessagingApi(api_client).reply_message(reply_req)
DoReply(s) ==
    /\ tasks[s].pc = "gather" /\ tasks[s].reply = "todo"
    /\ replies' = [replies EXCEPT ![tasks[s].id] = @ + 1]
    /\ tasks' = [tasks EXCEPT ![s].reply = "done"]
    /\ UNCHANGED <<now, groups, users, moneyVars, schedVars,
                   processed_message_ids, messages, posted, llmCalls, questions, question_targets,
                   deliveries, evicted>>

DetectMoneyStart_NoGuard(s) ==
    /\ tasks[s].pc = "gather" /\ tasks[s].money = "todo"
    /\ tasks' = [tasks EXCEPT ![s].money = "wait"]
    /\ llmCalls' = [llmCalls EXCEPT ![tasks[s].id] = @ + 1]
    /\ UNCHANGED <<now, groups, users, moneyVars, schedVars,
                   processed_message_ids, messages, posted, replies,
                   questions, question_targets, deliveries, evicted>>

\* detect_money_request up to the call of the classifier
DetectMoneyStart(s) ==
    /\ tasks[s].pc = "gather" /\ tasks[s].money = "todo"
    /\ IF EventGroup(tasks[s].id) = NoGroup
       THEN /\ tasks' = [tasks EXCEPT ![s].money = "done"]
            /\ UNCHANGED llmCalls
       ELSE /\ tasks' = [tasks EXCEPT ![s].money = "wait"]
            /\ llmCalls' = [llmCalls EXCEPT ![tasks[s].id] = @ + 1]
    /\ UNCHANGED <<now, groups, users, moneyVars, schedVars,
                   processed_message_ids, messages, posted, replies, questions, question_targets,
                   deliveries, evicted>>

\* what the classifier answered
Verdicts == {"yes", "no", "malformed"}

MoneyVerdictCreates_Lenient(v) == v # "no"

\* data.get("yes") and "amount" in data, int(data["amount"]) > 0
MoneyVerdictCreates(v) == v = "yes"

\* detect_money_request from the answer v of the classifier on
DetectMoneyAnswer(s, v) ==
    /\ tasks[s].pc = "gather" /\ tasks[s].money = "wait"
    /\ IF MoneyVerdictCreates(v)
       THEN MoneyInsert(EventGroup(tasks[s].id), EventUser(tasks[s].id))
       ELSE UNCHANGED moneyVars
    /\ tasks' = [tasks EXCEPT ![s].money = "done"]
    /\ UNCHANGED <<now, groups, users, schedVars, processed_message_ids,
                   messages, posted, replies, llmCalls, questions,
                   question_targets, deliveries, evicted>>

DetectMoneyFinish(s) == \E v \in Verdicts : DetectMoneyAnswer(s, v)

\* detect_question up to the call of the classifier
DetectQuestionStart(s) ==
    /\ tasks[s].pc = "gather" /\ tasks[s].question = "todo"
    /\ IF EventGroup(tasks[s].id) = NoGroup
       THEN /\ tasks' = [tasks EXCEPT ![s].question = "done"]
            /\ UNCHANGED llmCalls
       ELSE /\ tasks' = [tasks EXCEPT ![s].question = "wait"]
            /\ llmCalls' = [llmCalls EXCEPT ![tasks[s].id] = @ + 1]
    /\ UNCHANGED <<now, groups, users, moneyVars, schedVars,
                   processed_message_ids, messages, posted, replies, questions, question_targets,
                   deliveries, evicted>>

QuestionVerdictCreates_Lenient(v) == v # "no"

\* data.get("is_question") after json.loads
QuestionVerdictCreates(v) == v = "yes"

\* detect_question from the answer v of the classifier on
DetectQuestionAnswer(s, v, targetsOk) ==
    /\ tasks[s].pc = "gather" /\ tasks[s].question = "wait"
    /\ IF QuestionVerdictCreates(v)
       THEN QuestionInsert(EventGroup(tasks[s].id), EventUser(tasks[s].id),
                           GroupMembers(EventGroup(tasks[s].id)),
                           tasks[s].id, targetsOk)
       ELSE UNCHANGED <<questions, question_targets>>
    /\ tasks' = [tasks EXCEPT ![s].question = "done"]
    /\ UNCHANGED <<now, groups, users, moneyVars, schedVars,
                   processed_message_ids, messages, posted, replies, llmCalls,
                   deliveries, evicted>>

DetectQuestionFinish(s) ==
    \E v \in Verdicts : DetectQuestionAnswer(s, v, TRUE)

\* asyncio.gather returned: the coroutine ends
Settled(st) == st \in {"done", "failed"}

GatherReady_FirstException(t) ==
    \/ "failed" \in {t.save, t.reply, t.money, t.question}
    \/ Settled(t.save) /\ Settled(t.reply) /\ Settled(t.money)
          /\ Settled(t.question)

\* asyncio.gather(..., return_exceptions=True) has a result or an exception
\* of each of the four awaitables
GatherReady(t) ==
    Settled(t.save) /\ Settled(t.reply) /\ Settled(t.money)
       /\ Settled(t.question)

GatherDone(s) ==
    /\ tasks[s].pc = "gather"
    /\ GatherReady(tasks[s])
    /\ tasks' = [tasks EXCEPT ![s] = Free]
    /\ UNCHANGED <<now, groups, users, moneyVars, schedVars,
                   processed_message_ids, messages, posted, replies, llmCalls,
                   questions, question_targets, deliveries, evicted>>

NextEvent ==
    /\ \/ \E m \in EventIds : Deliver(m)
       \/ \E s \in Slots : Guard(s)
       \/ \E s \in Slots : ReplyGenerated(s)
       \/ \E s \in Slots : SaveMessage(s)
       \/ \E s \in Slots : DoReply(s)
       \/ \E s \in Slots : DetectMoneyStart(s)
       \/ \E s \in Slots : DetectMoneyFinish(s)
       \/ \E s \in Slots : DetectQuestionStart(s)
       \/ \E s \in Slots : DetectQuestionFinish(s)
       \/ \E s \in Slots : GatherDone(s)
    /\ UNCHANGED <<restarts, running, loops, peer, idVars, answer, qVars>>

SpecEvent == Init /\ [][NextEvent]_vars

\* ------------------------------------------------ failures in the fan-out

\* save_task raises (store error): gather keeps the exception
SaveMessageRaise(s) ==
    /\ tasks[s].pc = "gather" /\ tasks[s].save = "todo"
    /\ tasks' = [tasks EXCEPT ![s].save = "failed"]
    /\ UNCHANGED <<now, groups, users, moneyVars, schedVars,
                   processed_message_ids, messages, posted, replies, llmCalls,
                   questions, question_targets, deliveries, evicted>>

\* reply_message raises (expired reply token, network): do_reply has no
\* try, gather keeps the exception
DoReplyRaise(s) ==
    /\ tasks[s].pc = "gather" /\ tasks[s].reply = "todo"
    /\ tasks' = [tasks EXCEPT ![s].reply = "failed"]
    /\ UNCHANGED <<now, groups, users, moneyVars, schedVars,
                   processed_message_ids, messages, posted, replies, llmCalls,
                   questions, question_targets, deliveries, evicted>>

\* create_money_request raises: "Money detection failed" is printed and
\* detect_money_request returns
DetectMoneyRaise(s) ==
    /\ tasks[s].pc = "gather" /\ tasks[s].money = "wait"
    /\ tasks' = [tasks EXCEPT ![s].money = "done"]
    /\ UNCHANGED <<now, groups, users, moneyVars, schedVars,
                   processed_message_ids, messages, posted, replies, llmCalls,
                   questions, question_targets, deliveries, evicted>>

NextFanout ==
    \/ /\ \/ \E m \in EventIds :
                Delivered < MaxDeliveriesFault /\ Deliver(m)
          \/ \E s \in Slots : Guard(s)
          \/ \E s \in Slots : ReplyGenerated(s)
          \/ \E s \in Slots : SaveMessage(s)
          \/ \E s \in Slots : SaveMessageRaise(s)
          \/ \E s \in Slots : DoReply(s)
          \/ \E s \in Slots : DoReplyRaise(s)
          \/ \E s \in Slots : DetectMoneyStart(s)
          \/ \E s \in Slots : DetectMoneyRaise(s)
          \/ \E s \in Slots : DetectQuestionStart(s)
          \/ \E s \in Slots : GatherDone(s)
       /\ UNCHANGED <<restarts, running, loops, peer, idVars, answer, qVars>>
    \/ \E s \in Slots, v \in Verdicts :
          /\ DetectMoneyAnswer(s, v)
          /\ answer' = [kind |-> "money", v |-> v]
          /\ UNCHANGED <<restarts, running, loops, peer, idVars, qVars>>
    \/ \E s \in Slots, v \in Verdicts, targetsOk \in BOOLEAN :
          /\ DetectQuestionAnswer(s, v, targetsOk)
          /\ answer' = [kind |-> "question", v |-> v]
          /\ UNCHANGED <<restarts, running, loops, peer, idVars, qVars>>

SpecFanout == Init /\ [][NextFanout]_vars

\* ------------------------------------------- the duplicate guard seen
\* the event handling with the outcome of create_money_request on record

\* what detect_money_request did with the answer v of the classifier
MoneyOutcome(s, v) ==
    IF ~MoneyVerdictCreates(v) THEN "none"
    ELSE IF DupGuard(EventGroup(tasks[s].id), EventUser(tasks[s].id), now)
         THEN "duplicate"
         ELSE "created"

NextDup ==
    \/ /\ \/ \E m \in EventIds : Deliver(m)
          \/ \E s \in Slots : Guard(s)
          \/ \E s \in Slots : ReplyGenerated(s)
          \/ \E s \in Slots : SaveMessage(s)
          \/ \E s \in Slots : DoReply(s)
          \/ \E s \in Slots : DetectMoneyStart(s)
          \/ \E s \in Slots : DetectQuestionStart(s)
          \/ \E s \in Slots : DetectQuestionFinish(s)
          \/ \E s \in Slots : GatherDone(s)
       /\ UNCHANGED <<restarts, running, loops, peer, idVars, answer, qVars>>
    \/ \E s \in Slots, v \in Verdicts :
          /\ DetectMoneyAnswer(s, v)
          /\ answer' = [kind |-> "money", v |-> MoneyOutcome(s, v)]
          /\ UNCHANGED <<restarts, running, loops, peer, idVars, qVars>>

SpecDup == Init /\ [][NextDup]_vars

\* ------------------------------------------------ question_reminder_loop

\* what the question actions leave alone
moneyAll == <<groups, users, money_requests, remPc, remRow, remSuccess,
              sleepLeft, sends, lastFailed, errored>>
fanoutVars == <<processed_message_ids, tasks, messages, replies, llmCalls,
                deliveries, evicted, restarts, running, loops, peer, idVars, answer>>

\* .lte("remind_at", now_iso).is_("resolved_at", "null")
QDue(q, t) == q.remind_at <= t /\ q.resolved_at = Null

QDueIds(t) == {i \in QIds : QDue(questions[i], t)}

\* .order("remind_at").limit(1)
QOldestDue(t) ==
    {i \in QDueIds(t) : \A j \in QDueIds(t) :
        questions[i].remind_at <= questions[j].remind_at}

\* rows of the question in table T with responded_at null
Unresponded(T, qid) ==
    {t \in DOMAIN T : T[t].question_id = qid /\ T[t].responded_at = Null}

HasPosted_AnyTime(P, u, qid) == P[u] # Null

\* P has a message of user u in the group, created after the question
HasPosted(P, u, qid) == P[u] # Null /\ P[u] > questions[qid].created_at

Responding_None(qid) == {}

Responding_AllPosted(qid) ==
    {t \in TIds :
        /\ question_targets[t].question_id = qid
        /\ HasPosted(posted, question_targets[t].target_user_id, qid)}

\* responding_users of check_for_responses, as target rows
Responding(qid) ==
    {t \in Unresponded(question_targets, qid) :
        HasPosted(posted, question_targets[t].target_user_id, qid)}

\* check_for_responses: the table question_targets when it returns
MarkResponded(qid, t) ==
    [i \in TIds |-> IF i \in Responding(qid)
                    THEN [question_targets[i] EXCEPT !.responded_at = t]
                    ELSE question_targets[i]]

SetResolved(qid, t) == [questions EXCEPT ![qid].resolved_at = t]

\* check_for_responses: the table questions when it returns; the early
\* return for "no unresponded target" writes nothing
CheckResolved(qid, t) ==
    IF /\ Unresponded(question_targets, qid) # {}
       /\ Unresponded(MarkResponded(qid, t), qid) = {}
    THEN SetResolved(qid, t)
    ELSE questions

ResponseFound_Never(qid) == FALSE

\* the value check_for_responses returns
ResponseFound(qid) ==
    \/ Unresponded(question_targets, qid) = {}
    \/ Responding(qid) # {}

\* targets_result.data: rows with responded_at null and reminded_at null
ToRemind_IgnoringReminded(qid) ==
    SelectSeq([i \in 1..Len(question_targets) |-> i],
              LAMBDA i : /\ question_targets[i].question_id = qid
                         /\ question_targets[i].responded_at = Null)

ToRemind(qid) ==
    SelectSeq([i \in 1..Len(question_targets) |-> i],
              LAMBDA i : /\ question_targets[i].question_id = qid
                         /\ question_targets[i].responded_at = Null
                         /\ question_targets[i].reminded_at = Null)

\* remaining_targets at the end of the cycle: resolve when none is left
FinalResolve(T, qid, t) ==
    IF Unresponded(T, qid) = {} THEN SetResolved(qid, t) ELSE questions

SendsOf(t) == IF t \in DOMAIN qSends THEN qSends[t] ELSE 0

CountSend(t) ==
    [x \in DOMAIN qSends \cup {t} |->
        IF x = t THEN (IF SendsOf(t) < MaxSends THEN SendsOf(t) + 1
                       ELSE SendsOf(t))
        ELSE qSends[x]]

QEndCycle ==
    /\ qPc' = "sleep"
    /\ qRow' = 0
    /\ qTodo' = <<>>
    /\ qSleepLeft' = SleepSec
    /\ qSnap' = [u \in Members |-> Null]

\* time passes while the question loop sleeps or waits for a call
QTick ==
    /\ now + TickSec <= MaxTimeQ
    /\ Tick
    /\ qSleepLeft' = IF qSleepLeft > TickSec THEN qSleepLeft - TickSec ELSE 0
    /\ UNCHANGED <<eventVars, restarts, running, loops, peer, idVars, answer, qPc, qRow, qTodo, qSends,
                   qSnap>>

\* a member of group g1 posts: the save_message of that event
PostMessage(u) ==
    /\ posted[u] # now
    /\ posted' = [posted EXCEPT ![u] = now]
    /\ UNCHANGED <<now, moneyAll, fanoutVars, questions, question_targets,
                   qVars>>

\* detect_question found a question of member q in group g; targetsOk:
\* the insert into question_targets returned
CreateQuestion(g, q, cap, targetsOk) ==
    /\ q \in GroupMembers(g)
    /\ Len(questions) < cap
    /\ now + QuestionDelaySec <= MaxTimeQ
    /\ QuestionInsert(g, q, GroupMembers(g), 0, targetsOk)
    /\ UNCHANGED <<now, moneyAll, fanoutVars, posted, qVars>>

\* from the end of the sleep to the first suspension of the cycle: the
\* select, check_for_responses and the select of the targets
QSelect ==
    /\ qPc = "sleep" /\ qSleepLeft = 0
    /\ IF QDueIds(now) = {}
       THEN QEndCycle /\ UNCHANGED <<questions, question_targets>>
       ELSE \E q \in QOldestDue(now) :
              /\ question_targets' = MarkResponded(q, now)
              /\ IF ResponseFound(q)
                 THEN questions' = CheckResolved(q, now) /\ QEndCycle
                 ELSE IF ToRemind(q) = <<>>
                      THEN /\ questions' =
                                FinalResolve(question_targets, q, now)
                           /\ QEndCycle
                      ELSE /\ qPc' = "send"
                           /\ qRow' = q
                           /\ qTodo' = ToRemind(q)
                           /\ qSnap' = posted
                           /\ UNCHANGED <<questions, qSleepLeft>>
    /\ UNCHANGED <<now, moneyAll, fanoutVars, posted, qSends>>

QMarkOnSuccess_Always(success) == TRUE

\* if success: update reminded_at of the target row
QMarkOnSuccess(success) == success

\* the reply suggestion returned: send_to_line_user for the next target,
\* the update of its row, and after the last target the remaining check
QSend ==
    /\ qPc = "send"
    /\ \E ok \in BOOLEAN :
         LET t == Head(qTodo)
             T1 == IF QMarkOnSuccess(ok)
                   THEN [question_targets EXCEPT ![t].reminded_at = now]
                   ELSE question_targets
         IN /\ question_targets' = T1
            /\ qSends' = IF ok THEN CountSend(t) ELSE qSends
            /\ IF Tail(qTodo) = <<>>
               THEN questions' = FinalResolve(T1, qRow, now) /\ QEndCycle
               ELSE /\ qTodo' = Tail(qTodo)
                    /\ UNCHANGED <<questions, qPc, qRow, qSleepLeft, qSnap>>
    /\ UNCHANGED <<now, moneyAll, fanoutVars, posted>>

NextQ ==
    \/ QTick
    \/ \E u \in Members : PostMessage(u)
    \/ \E g \in Groups, q \in Users :
          CreateQuestion(g, q, MaxQuestions, TRUE)
    \/ QSelect
    \/ QSend

SpecQ == Init /\ [][NextQ]_vars

\* the select of the due question raised: it is outside the try, the task
\* ends
QSelectRaise ==
    /\ qPc = "sleep" /\ qSleepLeft = 0
    /\ qPc' = "dead"
    /\ UNCHANGED <<now, moneyAll, eventVars, restarts, running, loops, peer, idVars, answer, qRow, qTodo,
                   qSleepLeft, qSends, qSnap>>

NextQFault ==
    \/ QTick
    \/ \E u \in Members : PostMessage(u)
    \/ \E g \in Groups, q \in Users, targetsOk \in BOOLEAN :
          CreateQuestion(g, q, MaxQuestions, targetsOk)
    \/ QSelect
    \/ QSend
    \/ QSelectRaise

SpecQFault == Init /\ [][NextQFault]_vars

\* the except handler of the cycle: questions.reminded_at of the selected
\* question is written; writeOk: that write returned (it is passed over
\* otherwise)
QHandlerWrite(qid, t, writeOk) ==
    IF writeOk THEN [questions EXCEPT ![qid].reminded_at = t] ELSE questions

\* check_for_responses returned False and the select of the targets raised:
\* the handler runs and the cycle ends
QTargetsRaise ==
    /\ qPc = "sleep" /\ qSleepLeft = 0
    /\ \E q \in QOldestDue(now), writeOk \in BOOLEAN :
         /\ ~ResponseFound(q)
         /\ question_targets' = MarkResponded(q, now)
         /\ questions' = QHandlerWrite(q, now, writeOk)
    /\ QEndCycle
    /\ UNCHANGED <<now, moneyAll, fanoutVars, posted, qSends>>

\* the send returned True and the update of the target row raised: the
\* handler runs and the cycle ends
QMarkRaise ==
    /\ qPc = "send"
    /\ \E writeOk \in BOOLEAN :
         questions' = QHandlerWrite(qRow, now, writeOk)
    /\ qSends' = CountSend(Head(qTodo))
    /\ QEndCycle
    /\ UNCHANGED <<now, moneyAll, fanoutVars, posted, question_targets>>

NextQErr ==
    \/ QTick
    \/ \E u \in Members : PostMessage(u)
    \/ \E g \in Groups, q \in Users :
          CreateQuestion(g, q, MaxQuestions, TRUE)
    \/ QSelect
    \/ QSend
    \/ QTargetsRaise
    \/ QMarkRaise

SpecQErr == Init /\ [][NextQErr]_vars

\* ------------------------------------------------ the checker services

\* remind_at = datetime.now() + timedelta(seconds=60) of both services
CheckerDelaySec == 60

\* a message text, as far as the fallbacks read it: yen is the number
\* before the first "円" (Null: no match of (\d+)\s*円), qmark: the text
\* holds "?" or "？"
Texts == [yen : {Null, 0, 500}, qmark : BOOLEAN]

\* what ai_service.quick_call does: it returns a JSON object with a verdict
\* and an amount, returns text that json.loads rejects, or raises
Responses ==
    [kind : {"json"}, verdict : BOOLEAN, amount : {Null, 0, 300}]
        \cup {[kind |-> "invalid", verdict |-> FALSE, amount |-> Null],
              [kind |-> "raise", verdict |-> FALSE, amount |-> Null]}

\* MoneyCheckerService.detect_payment_request
detect_payment_request(text, resp) ==
    IF resp.kind = "raise"
    THEN [is_payment_request |-> FALSE, amount |-> Null]
    ELSE IF resp.kind = "json"
    THEN [is_payment_request |-> resp.verdict, amount |-> resp.amount]
    ELSE [is_payment_request |-> TRUE, amount |-> text.yen]

\* QuestionCheckerService.detect_question
detect_question(text, resp) ==
    IF resp.kind = "raise"
    THEN [is_question |-> FALSE]
    ELSE IF resp.kind = "json"
    THEN [is_question |-> resp.verdict]
    ELSE [is_question |-> text.qmark]

\* a Python value used as a condition
Truthy(x) == x # Null /\ x # 0

\* time passes between two events
CheckerTick ==
    /\ Tick
    /\ UNCHANGED <<eventVars, restarts, running, loops, peer, idVars, answer, qVars>>

\* MoneyCheckerService.process_group_message for a text message of u1 in
\* group g, with save_payment_request
MoneyCheckerMessage(g, text, resp) ==
    LET d == detect_payment_request(text, resp) IN
    /\ answer' = [kind |-> "money_checker",
                  v |-> [response |-> resp.kind,
                         verdict |-> d.is_payment_request]]
    /\ IF d.is_payment_request /\ Truthy(d.amount) /\ g # NoGroup
          /\ Len(money_requests) < MaxReqChecker
       THEN /\ money_requests' = Append(money_requests,
                   [remind_at |-> now + CheckerDelaySec, reminded_at |-> Null,
                    group_id |-> g, requester_user_id |-> "u1"])
            /\ sends' = Append(sends, 0)
       ELSE UNCHANGED <<money_requests, sends>>
    /\ UNCHANGED <<now, groups, users, schedVars, eventVars, restarts, running, loops, peer,
                   idVars, qVars>>

\* QuestionCheckerService.process_group_message for a text message of u1
\* in group g, with save_question
QuestionCheckerMessage(g, text, resp) ==
    LET d == detect_question(text, resp) IN
    /\ answer' = [kind |-> "question_checker",
                  v |-> [response |-> resp.kind, verdict |-> d.is_question]]
    /\ IF d.is_question /\ g # NoGroup /\ Len(questions) < MaxQuestionsChecker
       THEN questions' = Append(questions,
                [group_id |-> g, questioner_user_id |-> "u1", message_id |-> 0,
                 created_at |-> now, remind_at |-> now + CheckerDelaySec,
                 resolved_at |-> Null, reminded_at |-> Null])
       ELSE UNCHANGED questions
    /\ UNCHANGED <<now, moneyAll, processed_message_ids, tasks, messages,
                   replies, llmCalls, question_targets, posted, deliveries,
                   evicted, restarts, running, loops, peer, idVars, qVars>>

NextChecker ==
    \/ CheckerTick
    \/ \E g \in {"g1", NoGroup}, text \in Texts, resp \in Responses :
          MoneyCheckerMessage(g, text, resp)
    \/ \E g \in {"g1", NoGroup}, text \in Texts, resp \in Responses :
          QuestionCheckerMessage(g, text, resp)

SpecChecker == Init /\ [][NextChecker]_vars

\* ------------------------------------------------- both reminder loops
\* reminder_loop and question_reminder_loop run as two tasks of one event
\* loop over one clock; no member posts, so every target stays outstanding
\* and each of its reminders falls due

otherVars == <<eventVars, restarts, running, loops, peer, idVars, answer, qVars>>

NextSched ==
    \/ QTick
    \/ \E g \in Groups, u \in Users :
          CreateMoneyRequest(g, u, MaxReqSched) /\ UNCHANGED otherVars
    \/ ReminderSelect /\ UNCHANGED otherVars
    \/ ReminderSend /\ UNCHANGED otherVars
    \/ ReminderMark /\ UNCHANGED otherVars
    \/ \E g \in Groups, q \in Users :
          CreateQuestion(g, q, MaxQuestionsSched, TRUE)
    \/ QSelect
    \/ QSend

SpecSched == Init /\ [][NextSched]_vars

\* ------------------------------------------ get_or_create_user / _group
\* the supabase client is synchronous and neither function awaits anything:
\* a task runs from its start through both functions without giving the
\* event loop to another task

FindRow_Miss(R, lid) == {}

\* select("id").eq("line_user_id", lid): the ids of the rows found
FindRow(R, lid) == {i \in 1..Len(R) : R[i] = lid}

\* the table when get_or_create returns: the insert follows an empty select
GetOrCreateRows(R, lid) ==
    IF FindRow(R, lid) # {} THEN R ELSE Append(R, lid)

\* the id get_or_create returns: result.data[0]["id"] or the inserted one
GetOrCreateId(R, lid) ==
    IF FindRow(R, lid) # {}
    THEN CHOOSE i \in FindRow(R, lid) : \A j \in FindRow(R, lid) : i <= j
    ELSE Len(R) + 1

\* process_message_async of an event of sender lu in group lg (NoGroup in
\* a 1:1 chat), up to its first suspension
ResolveSender(s, lu, lg) ==
    /\ resolved[s].pc = "idle"
    /\ idRows' = [users |-> GetOrCreateRows(idRows.users, lu),
                  groups |-> IF lg = NoGroup THEN idRows.groups
                             ELSE GetOrCreateRows(idRows.groups, lg)]
    /\ resolved' = [resolved EXCEPT ![s] =
           [pc |-> "handling", line_user |-> lu, line_group |-> lg,
            user_id |-> GetOrCreateId(idRows.users, lu),
            group_id |-> IF lg = NoGroup THEN 0
                         ELSE GetOrCreateId(idRows.groups, lg)]]
    /\ UNCHANGED <<now, moneyAll, eventVars, restarts, running, loops, peer, answer, qVars>>

\* the rest of the handling of the event
HandlingDone(s) ==
    /\ resolved[s].pc = "handling"
    /\ resolved' = [resolved EXCEPT ![s] = Unresolved]
    /\ UNCHANGED <<now, moneyAll, eventVars, restarts, running, loops, peer, answer, qVars,
                   idRows>>

NextResolve ==
    \/ \E s \in Slots, lu \in LineUsers, lg \in LineGroups \cup {NoGroup} :
          ResolveSender(s, lu, lg)
    \/ \E s \in Slots : HandlingDone(s)

SpecResolve == Init /\ [][NextResolve]_vars

\* ----------------------------------------------------- ReminderService
\* reminder_service.py, run by test_reminder_service.py on a store it has
\* put a request in; process_question_reminders writes no money request

\* remind_at = now + timedelta(seconds=10) of the test
TestDelaySec == 10

RSDue_IgnoringRemindAt(r, t) == r.reminded_at = Null

\* .lte("remind_at", now_iso).is_("reminded_at", "null"), no limit
RSDue(r, t) == r.remind_at <= t /\ r.reminded_at = Null

\* send_payment_reminder gets as far as the send: the groups row exists
\* (a missing users row only changes the name in the text)
RSSendable(i) == money_requests[i].group_id \in groups

\* the table after send_payment_reminder has run for every due row: the
\* update follows the send whatever the send returned
RSMarked(t) ==
    [i \in Ids |-> IF RSDue(money_requests[i], t) /\ RSSendable(i)
                   THEN [money_requests[i] EXCEPT !.reminded_at = t]
                   ELSE money_requests[i]]

\* send_message_to_group returned oks[i] for row i
RSSent(t, oks) ==
    [i \in Ids |-> IF /\ RSDue(money_requests[i], t) /\ RSSendable(i)
                      /\ oks[i] /\ sends[i] < MaxSends
                   THEN sends[i] + 1 ELSE sends[i]]

\* the insert of the test: no duplicate guard
TestInsert(g, u, cap) ==
    /\ g \in groups /\ u \in users
    /\ Len(money_requests) < cap
    /\ money_requests' = Append(money_requests,
            [group_id |-> g, requester_user_id |-> u,
             remind_at |-> now + TestDelaySec, reminded_at |-> Null])
    /\ sends' = Append(sends, 0)
    /\ UNCHANGED <<now, groups, users, schedVars>>

\* one call of process_due_reminders
ProcessDueReminders ==
    /\ \E oks \in [Ids -> BOOLEAN] :
         /\ money_requests' = RSMarked(now)
         /\ sends' = RSSent(now, oks)
    /\ UNCHANGED <<now, groups, users, schedVars>>

NextRS ==
    /\ \/ Tick
       \/ \E g \in Groups : DeleteGroup(g)
       \/ \E g \in Groups, u \in Users : TestInsert(g, u, MaxReqRS)
       \/ ProcessDueReminders
    /\ UNCHANGED otherVars

SpecRS == Init /\ [][NextRS]_vars

\* ----------------------------------- start_reminder_loop, stop_reminder_loop

\* self.check_interval
CheckInterval == 15

\* what the loop actions leave alone
loopRest == <<schedVars, eventVars, restarts, peer, idVars, answer, qVars>>

\* a call of start_reminder_loop whose body has not returned
LoopAlive(k) == loops[k].pc \in {"created", "process", "sleep"}

\* start_reminder_loop() is called and scheduled as a task; its body has
\* not run yet
StartLoop(k) ==
    /\ loops[k].pc = "none"
    /\ \A j \in LoopSlots : j < k => loops[j].pc # "none"
    /\ loops' = [loops EXCEPT ![k].pc = "created"]
    /\ UNCHANGED <<now, groups, users, moneyVars, running, loopRest>>

\* the body starts: self.running = True, and the first test of the while
LoopEnter(k) ==
    /\ loops[k].pc = "created"
    /\ running' = TRUE
    /\ loops' = [loops EXCEPT ![k].pc = "process"]
    /\ UNCHANGED <<now, groups, users, moneyVars, loopRest>>

\* await self.process_due_reminders() returns; the sleep begins
LoopProcess(k) ==
    /\ loops[k].pc = "process"
    /\ \E oks \in [Ids -> BOOLEAN] :
         /\ money_requests' = RSMarked(now)
         /\ sends' = RSSent(now, oks)
    /\ loops' = [loops EXCEPT ![k].pc = "sleep", ![k].left = CheckInterval]
    /\ UNCHANGED <<now, groups, users, running, loopRest>>

\* the sleep is over: the test of the while
LoopWake(k) ==
    /\ loops[k].pc = "sleep" /\ loops[k].left = 0
    /\ loops' = [loops EXCEPT ![k].pc = IF running THEN "process" ELSE "done"]
    /\ UNCHANGED <<now, groups, users, moneyVars, running, loopRest>>

LoopStep(k) == LoopEnter(k) \/ LoopProcess(k) \/ LoopWake(k)

\* stop_reminder_loop()
StopLoop ==
    /\ running' = FALSE
    /\ loops' = [k \in LoopSlots |->
                    IF LoopAlive(k) THEN [loops[k] EXCEPT !.stopped = TRUE]
                    ELSE loops[k]]
    /\ UNCHANGED <<now, groups, users, moneyVars, loopRest>>

\* time passes; the clock of the model stops at MaxTime, the sleeps go on
LoopTick ==
    /\ now' = IF now + TickSec <= MaxTime THEN now + TickSec ELSE now
    /\ loops' = [k \in LoopSlots |->
                    [loops[k] EXCEPT !.left =
                        IF @ > TickSec THEN @ - TickSec ELSE 0]]
    /\ UNCHANGED <<groups, users, moneyVars, running, loopRest>>

NextLoop ==
    \/ LoopTick
    \/ \E k \in LoopSlots : StartLoop(k)
    \/ \E k \in LoopSlots : LoopEnter(k)
    \/ \E k \in LoopSlots : LoopProcess(k)
    \/ \E k \in LoopSlots : LoopWake(k)
    \/ StopLoop
    \/ \E g \in Groups, u \in Users :
          TestInsert(g, u, MaxReqLoop) /\ UNCHANGED otherVars

\* time passes and the event loop runs every task that can take a step
SpecLoop ==
    /\ Init /\ [][NextLoop]_vars
    /\ WF_vars(LoopTick)
    /\ \A k \in LoopSlots : WF_vars(LoopStep(k))

\* ------------------------------------------- QuestionReminderService
\* process_all_inactive_users as ReminderService.process_question_reminders
\* calls it, on questions that create_question_record saved for group g1

\* hours_threshold = 2/60 and reminder_interval_hours = 5/60, in seconds
ThresholdSec == 120
IntervalSec == 300

\* what the actions of the service leave alone
inactiveRest == <<moneyAll, fanoutVars, qPc, qRow, qTodo, qSleepLeft, qSnap>>

\* the rows of question_targets with target_user_id = u
RowsOfUser(u) == {t \in TIds : question_targets[t].target_user_id = u}

ShouldSendReminder_NullsLast(u, t) ==
    \/ RowsOfUser(u) = {}
    \/ \A r \in RowsOfUser(u) : question_targets[r].reminded_at = Null
    \/ \A r \in RowsOfUser(u) :
          question_targets[r].reminded_at < t - IntervalSec

\* _should_send_reminder at time t: the first row of the user under
\* .order("reminded_at", desc=True).limit(1); the store sorts a null
\* reminded_at before every value when the order is descending
ShouldSendReminder(u, t) ==
    \/ RowsOfUser(u) = {}
    \/ \E r \in RowsOfUser(u) : question_targets[r].reminded_at = Null
    \/ \A r \in RowsOfUser(u) :
          question_targets[r].reminded_at < t - IntervalSec

\* find_inactive_users_for_questions at time t, as rows of question_targets:
\* the question is unresolved and older than the threshold, the member is
\* not the questioner (create_question_record made a row for every other
\* member), has no message after the question, and _should_send_reminder
\* said yes
InactiveRows(t) ==
    {r \in TIds :
        LET q == question_targets[r].question_id
            u == question_targets[r].target_user_id
        IN /\ questions[q].resolved_at = Null
           /\ questions[q].created_at < t - ThresholdSec
           /\ ~HasPosted(posted, u, q)
           /\ ShouldSendReminder(u, t)}

\* time passes between two calls
InactiveTick ==
    /\ now + TickInactive <= MaxTimeInactive
    /\ now' = now + TickInactive
    /\ UNCHANGED <<questions, question_targets, posted, qSends, inactiveRest>>

\* a member of g1 asks a question: create_question_record
InactiveAsk(q) ==
    /\ Len(questions) < MaxQuestionsInactive
    /\ QuestionInsert("g1", q, GroupMembers("g1"), 0, TRUE)
    /\ UNCHANGED <<now, posted, qSends, inactiveRest>>

\* a member of g1 posts a message
InactivePost(u) ==
    /\ posted[u] # now
    /\ posted' = [posted EXCEPT ![u] = now]
    /\ UNCHANGED <<now, questions, question_targets, qSends, inactiveRest>>

\* one call of process_all_inactive_users: the list is built first, then
\* send_individual_reminder runs for each entry; oks[r]: every message of
\* the reminder for row r was sent, and _record_reminder_sent follows
ProcessAllInactiveUsers ==
    /\ \E oks \in [InactiveRows(now) -> BOOLEAN] :
         /\ question_targets' =
               [r \in TIds |->
                  IF r \in InactiveRows(now) /\ oks[r]
                  THEN [question_targets[r] EXCEPT !.reminded_at = now]
                  ELSE question_targets[r]]
         /\ qSends' =
               [r \in DOMAIN qSends \cup {x \in InactiveRows(now) : oks[x]} |->
                  IF r \in InactiveRows(now) /\ oks[r]
                  THEN CountSend(r)[r] ELSE qSends[r]]
    /\ UNCHANGED <<now, questions, posted, inactiveRest>>

NextInactive ==
    \/ InactiveTick
    \/ InactiveAsk("u1")
    \/ InactivePost("u2")
    \/ ProcessAllInactiveUsers

SpecInactive == Init /\ [][NextInactive]_vars

\* ------------------------------------------- two instances of the loop
\* the application deployed twice: each process runs reminder_loop with a
\* sleep of its own against the one store

restVars == <<eventVars, restarts, running, loops, idVars, answer, qVars>>

PeerEnd ==
    [pc |-> "sleep", row |-> 0, success |-> FALSE, sleepLeft |-> SleepSec]

TwoTick ==
    /\ Tick
    /\ peer' = [peer EXCEPT !.sleepLeft =
                   IF @ > TickSec THEN @ - TickSec ELSE 0]
    /\ UNCHANGED restVars

\* the select and the lookups of the second instance
PeerSelect ==
    /\ peer.pc = "sleep" /\ peer.sleepLeft = 0
    /\ IF DueIds(now) = {}
       THEN peer' = PeerEnd /\ UNCHANGED money_requests
       ELSE \E i \in OldestDue(now) :
              IF Resolvable(i)
              THEN /\ peer' = [peer EXCEPT !.pc = "send", !.row = i]
                   /\ UNCHANGED money_requests
              ELSE /\ money_requests' = SkipWrite(i, now)
                   /\ peer' = PeerEnd
    /\ UNCHANGED <<now, groups, users, sends, schedVars, restVars>>

\* the send of the second instance
PeerSend ==
    /\ peer.pc = "send"
    /\ \E ok \in BOOLEAN :
         /\ peer' = [peer EXCEPT !.pc = "mark", !.success = ok]
         /\ sends' = IF ok /\ sends[peer.row] < MaxSends
                     THEN [sends EXCEPT ![peer.row] = @ + 1] ELSE sends
    /\ UNCHANGED <<now, groups, users, money_requests, schedVars, restVars>>

\* if success: update(reminded_at).eq("id", row["id"]) of the second
\* instance
PeerMark ==
    /\ peer.pc = "mark"
    /\ IF MarkOnSuccess(peer.success)
       THEN money_requests' = SetReminded(peer.row, now)
       ELSE UNCHANGED money_requests
    /\ peer' = PeerEnd
    /\ UNCHANGED <<now, groups, users, sends, schedVars, restVars>>

NextTwo ==
    \/ TwoTick
    \/ \E g \in Groups, u \in Users :
          CreateMoneyRequest(g, u, MaxReqTwo) /\ UNCHANGED otherVars
    \/ ReminderSelect /\ UNCHANGED otherVars
    \/ ReminderSend /\ UNCHANGED otherVars
    \/ ReminderMark /\ UNCHANGED otherVars
    \/ PeerSelect
    \/ PeerSend
    \/ PeerMark

SpecTwo == Init /\ [][NextTwo]_vars

\* ------------------------------------------------- the money obligations

Unreminded(i) == money_requests[i].reminded_at = Null

Reminded(i) == money_requests[i].reminded_at # Null

\* a step of reminder_loop that runs the select of a new cycle
SelectStep ==
    /\ remPc = "sleep"
    /\ remPc' = "send" \/ sleepLeft' > sleepLeft

\* a step that ends a cycle of reminder_loop
CycleEndStep ==
    /\ remPc' = "sleep"
    /\ sleepLeft' = SleepSec
    /\ remPc # "sleep" \/ sleepLeft = 0

\* C1: in every reachable state a (group, requester) pair has at most one
\* money obligation whose reminded_at is null.
C1_AtMostOneUnreminded ==
    \A i, j \in Ids :
        (/\ i # j
         /\ money_requests[i].group_id = money_requests[j].group_id
         /\ money_requests[i].requester_user_id = money_requests[j].requester_user_id
         /\ Unreminded(i))
        => Reminded(j)

\* C2: the cycle that sent the reminder of a row ends with the row's
\* reminded_at set if the send returned success and still null if it returned
\* failure.
C2_MarkedIffSendSucceeded ==
    [][(remPc = "mark" /\ CycleEndStep)
         => /\ remSuccess => money_requests'[remRow].reminded_at # Null
            /\ ~remSuccess => money_requests'[remRow].reminded_at = Null]_vars

C2_Witness ==
    /\ remPc = "sleep"
    /\ lastFailed # 0 /\ Unreminded(lastFailed)
    /\ \E i \in Ids : Reminded(i) /\ sends[i] = 1

\* C4: a row whose send returned failure keeps its remind_at and its null
\* reminded_at, so it is still due, and the next cycle's select takes it again
\* and goes on to its send when it is the only row of least remind_at (and
\* still resolvable).
C4_FailedIsRetried ==
    [][/\ \A i \in Ids : money_requests'[i].remind_at = money_requests[i].remind_at
       /\ lastFailed # 0 =>
            /\ money_requests[lastFailed].reminded_at = Null
            /\ money_requests[lastFailed].remind_at <= now
       /\ (/\ SelectStep
           /\ lastFailed # 0
           /\ Resolvable(lastFailed)
           /\ \A j \in Ids \ {lastFailed} :
                 (money_requests[j].reminded_at = Null /\ money_requests[j].remind_at <= now)
                   => money_requests[j].remind_at > money_requests[lastFailed].remind_at)
          => (remPc' = "send" /\ remRow' = lastFailed)]_vars

C4_Witness ==
    /\ remPc = "mark"
    /\ lastFailed # 0
    /\ remRow = lastFailed
    /\ Len(money_requests) > 1

C6_OnePerCycleOldestFirst ==
    [][\A i \in Ids :
         (money_requests[i].reminded_at = Null /\ money_requests'[i].reminded_at # Null)
           => /\ CycleEndStep
              /\ \A j \in Ids \ {i} :
                    /\ money_requests'[j].reminded_at = money_requests[j].reminded_at
                    /\ money_requests[j].reminded_at = Null
                         => money_requests[j].remind_at >= money_requests[i].remind_at]_vars

\* three rows, all due before the first of them was handled, reminded in the
\* order of their remind_at by three consecutive cycles (less than two sleeps
\* lie between one reminder and the next)
C6_Witness ==
    /\ Len(money_requests) = 3
    /\ money_requests[1].remind_at < money_requests[2].remind_at
    /\ money_requests[2].remind_at < money_requests[3].remind_at
    /\ \A i \in 1..3 : Reminded(i) /\ sends[i] = 1
    /\ money_requests[3].remind_at <= money_requests[1].reminded_at
    /\ money_requests[1].reminded_at < money_requests[2].reminded_at
    /\ money_requests[2].reminded_at < money_requests[1].reminded_at + 2 * SleepSec
    /\ money_requests[2].reminded_at < money_requests[3].reminded_at
    /\ money_requests[3].reminded_at < money_requests[2].reminded_at + 2 * SleepSec

\* C8: when the selected row's group or requester is gone, the select step
\* itself sets the row's reminded_at and ends the cycle, without a send; the
\* row is due no more, so a later select takes another row.
C8_UnresolvableIsSkipped ==
    [][(SelectStep /\ \E i \in Ids : money_requests[i].reminded_at = Null
                                      /\ money_requests[i].remind_at <= now)
         => \E i \in Ids :
              /\ money_requests[i].reminded_at = Null
              /\ money_requests[i].remind_at <= now
              /\ IF money_requests[i].group_id \in groups
                    /\ money_requests[i].requester_user_id \in users
                 THEN remPc' = "send" /\ remRow' = i /\ money_requests' = money_requests
                 ELSE /\ money_requests'[i].reminded_at # Null
                      /\ remPc' = "sleep" /\ remRow' = 0
                      /\ sends' = sends]_vars

C8_Witness ==
    \E i, j \in Ids :
        /\ Reminded(i) /\ sends[i] = 0 /\ ~Resolvable(i)
        /\ money_requests[j].remind_at > money_requests[i].remind_at
        /\ money_requests[j].remind_at <= money_requests[i].reminded_at
        /\ remRow = j /\ remPc = "send"

ActiveOf(m) == {s \in Slots : tasks[s].pc # "free" /\ tasks[s].id = m}
PastGuard(m) == {s \in ActiveOf(m) : tasks[s].pc \in {"llm", "gather"}}

\* the step in which the task of slot s runs its guard
GuardStep(s) == tasks[s].pc = "new" /\ tasks'[s] # tasks[s]

\* C9: a task gets past the guard only when its id is not in the set, and
\* the same step inserts the id; a task that finds its id in the set ends in
\* that step and writes nothing, replies nothing and calls no model; so
\* while an id has not been evicted at most one task of it is past the guard
\* and at most three model calls (reply, money, question) are made for it.
C9_OnePastGuard ==
    /\ [](\A m \in EventIds : m \notin evicted =>
             /\ Cardinality(PastGuard(m)) <= 1
             /\ llmCalls[m] <= 3
             /\ (PastGuard(m) # {} => m \in processed_message_ids))
    /\ [][\A s \in Slots : GuardStep(s) =>
           IF tasks[s].id \in processed_message_ids
           THEN /\ tasks'[s] = Free
                /\ UNCHANGED <<processed_message_ids, messages, replies,
                               llmCalls, questions, money_requests, evicted>>
           ELSE /\ tasks'[s].pc = "llm"
                /\ tasks[s].id \in processed_message_ids' \cup evicted'
                /\ UNCHANGED <<messages, replies, questions,
                               money_requests>>]_vars

\* two tasks of one id: one is suspended in the LLM call, the other one was
\* dropped by the guard
C9_Witness ==
    \E m \in EventIds :
        /\ deliveries[m] = 2 /\ m \notin evicted
        /\ Cardinality(ActiveOf(m)) = 1
        /\ \E s \in PastGuard(m) : tasks[s].pc = "llm"
        /\ messages[m] = 0 /\ replies[m] = 0 /\ llmCalls[m] = 1

\* C10: an event id that was never evicted has at most one row in messages
\* and at most one reply, however often it is delivered, and exactly one of
\* each once all its tasks have ended.
C10_OneMessageOneReply ==
    \A m \in EventIds : m \notin evicted =>
        /\ messages[m] <= 1 /\ replies[m] <= 1
        /\ (deliveries[m] >= 1 /\ ActiveOf(m) = {}) =>
               (messages[m] = 1 /\ replies[m] = 1)

\* an id delivered twice, both tasks ended: one message, one reply
C10_Witness ==
    \E m \in EventIds :
        /\ deliveries[m] = 2 /\ m \notin evicted /\ ActiveOf(m) = {}
        /\ messages[m] = 1 /\ replies[m] = 1
\* -------------------------------------------------- no obligation lost

\* the send of the running cycle returns False
SendFails == remPc = "send" /\ remPc' = "mark" /\ ~remSuccess'

\* a send to the group of row i returns False
OwnGroupSendFails(i) ==
    /\ SendFails /\ i \in Ids
    /\ money_requests[remRow].group_id = money_requests[i].group_id

\* a send for row i, or for a row that is due no later than row i, returns
\* False
EarlierSendFails(i) ==
    /\ SendFails /\ i \in Ids
    /\ money_requests[remRow].remind_at <= money_requests[i].remind_at

\* row i ends marked after a send that returned True, unless its group or
\* requester stopped being resolvable
NotLost(i) ==
    [](i \in Ids =>
         <>(i \in Ids /\ ((Reminded(i) /\ sends[i] >= 1) \/ ~Resolvable(i))))

\* a restart changes no row of money_requests
RestartKeepsRows == [][Restart => UNCHANGED money_requests]_vars

C19_LoopSurvivesErrors == remPc # "dead"
\* ------------------------------------------------------------ the fan-out

SubsOf(t) == <<t.save, t.reply, t.money, t.question>>

InGather(s) == tasks[s].pc = "gather"

\* C11: while a task is in asyncio.gather, a step settles at most one of
\* its four awaitables and changes none that is settled, whatever the
\* others did; every awaitable that is not settled can take its next step;
\* the task leaves gather only when all four are done or failed.
C11_FanOutIndependent ==
    /\ [][\A s \in Slots : InGather(s) =>
            IF tasks'[s].pc = "gather"
            THEN /\ \A k \in 1..4 :
                      Settled(SubsOf(tasks[s])[k]) =>
                          SubsOf(tasks'[s])[k] = SubsOf(tasks[s])[k]
                 /\ Cardinality({k \in 1..4 :
                        SubsOf(tasks'[s])[k] # SubsOf(tasks[s])[k]}) <= 1
            ELSE \A k \in 1..4 : SubsOf(tasks[s])[k] \in {"done", "failed"}
         ]_vars
    /\ [](\A s \in Slots : InGather(s) =>
            /\ tasks[s].save = "todo" => ENABLED SaveMessage(s)
            /\ tasks[s].reply = "todo" => ENABLED DoReply(s)
            /\ tasks[s].money = "todo" => ENABLED DetectMoneyStart(s)
            /\ tasks[s].money = "wait" => ENABLED DetectMoneyFinish(s)
            /\ tasks[s].question = "todo" => ENABLED DetectQuestionStart(s)
            /\ tasks[s].question = "wait" => ENABLED DetectQuestionFinish(s))

\* the reply raised, the three other awaitables completed, the task is
\* still in gather; and a task whose save raised while its reply was sent
C11_Witness ==
    /\ \E s \in Slots :
          /\ InGather(s) /\ tasks[s].reply = "failed"
          /\ tasks[s].save = "done" /\ tasks[s].money = "done"
          /\ tasks[s].question = "done"
          /\ messages[tasks[s].id] = 1 /\ replies[tasks[s].id] = 0
    /\ \E s \in Slots :
          /\ InGather(s) /\ tasks[s].save = "failed"
          /\ tasks[s].reply = "done"
          /\ messages[tasks[s].id] = 0 /\ replies[tasks[s].id] = 1

TargetsOf(qid) == {t \in TIds : question_targets[t].question_id = qid}

AllResponded(qid) ==
    \A t \in TargetsOf(qid) : question_targets[t].responded_at # Null

QResolved(qid) == questions[qid].resolved_at # Null

\* C13: whenever no cycle of question_reminder_loop is under way, a
\* question has resolved_at set if and only if each of its target rows has
\* responded_at set; a question without target rows is resolved.
C13_ResolvedIffAllResponded ==
    qPc = "sleep" => \A q \in QIds : QResolved(q) <=> AllResponded(q)

TReminded(t) == question_targets[t].reminded_at # Null

\* C15: the targets a cycle still has to handle are distinct rows that are
\* not reminded; a target row is sent at most one reminder that succeeds;
\* once its reminded_at is set no step sends it a reminder or writes its
\* reminded_at.
C15_TargetRemindedOnce ==
    /\ [](/\ \A k, l \in 1..Len(qTodo) : k # l => qTodo[k] # qTodo[l]
          /\ \A k \in 1..Len(qTodo) : ~TReminded(qTodo[k])
          /\ \A t \in TIds : SendsOf(t) <= 1)
    /\ [][\A t \in TIds : TReminded(t) =>
            /\ question_targets'[t].reminded_at =
                  question_targets[t].reminded_at
            /\ SendsOf(t)' = SendsOf(t)]_vars

\* a later cycle on the same question: one target was reminded in an
\* earlier cycle and is not handled again, the other one is
C15_Witness ==
    \E t \in TIds :
        /\ TReminded(t) /\ SendsOf(t) = 1
        /\ qPc = "send" /\ qRow = question_targets[t].question_id
        /\ now >= question_targets[t].reminded_at + SleepSec
        /\ \A k \in 1..Len(qTodo) : qTodo[k] # t

\* a step that runs the start of a cycle of question_reminder_loop
QCycleStart ==
    /\ qPc = "sleep" /\ qSleepLeft = 0
    /\ (qPc' = "send" \/ qSleepLeft' = SleepSec)

TUser(t) == question_targets[t].target_user_id

TFresh(t) ==
    /\ question_targets[t].responded_at = Null
    /\ question_targets[t].reminded_at = Null

\* C16: a cycle that examines a due question with two targets a and b, of
\* which a has posted in the group after the question was created and b has
\* not, sets a's responded_at, goes on to send the reminder of b and of
\* nobody else, and leaves the question unresolved.
C16_CycleMarksAndReminds ==
    [][\A q \in QIds : \A a, b \in TargetsOf(q) :
         (/\ QCycleStart
          /\ QOldestDue(now) = {q}
          /\ a # b /\ TargetsOf(q) = {a, b}
          /\ TFresh(a) /\ TFresh(b)
          /\ HasPosted(posted, TUser(a), q)
          /\ ~HasPosted(posted, TUser(b), q))
         => /\ question_targets'[a].responded_at = now
            /\ questions'[q].resolved_at = Null
            /\ qPc' = "send" /\ qRow' = q /\ qTodo' = <<b>>]_vars

\* the user of target row t has a message in the group that is newer than
\* question q
PostedAfter(t, q) ==
    /\ posted[TUser(t)] # Null
    /\ posted[TUser(t)] > questions[q].created_at

\* C17: a question has resolved_at set only if the user of each of its
\* target rows has posted in the group after the question's created_at, and
\* a cycle that examines a question all of whose targets have posted so
\* sets its resolved_at.
C17_ResolvedWhenAllPosted ==
    /\ [](\A q \in QIds :
            QResolved(q) => \A t \in TargetsOf(q) : PostedAfter(t, q))
    /\ [][\A q \in QIds :
            (/\ QCycleStart
             /\ QOldestDue(now) = {q}
             /\ \A t \in TargetsOf(q) : PostedAfter(t, q))
            => questions'[q].resolved_at = now]_vars

\* a question resolved by its last outstanding target: one target row was
\* marked responded by an earlier cycle than the other
C17_Witness ==
    \E q \in QIds : \E a, b \in TargetsOf(q) :
        /\ QResolved(q)
        /\ TargetsOf(q) = {a, b}
        /\ question_targets[a].responded_at # Null
        /\ question_targets[a].responded_at
              < question_targets[b].responded_at
        /\ question_targets[b].responded_at = questions[q].resolved_at

\* a step of the send phase of a cycle: the reminder of the first row of
\* qTodo is attempted
QSendStep == qPc = "send" /\ (qPc' = "sleep" \/ qTodo' # qTodo)

\* the user of target row t had a message newer than question q when the
\* cycle under way started
PostedAtCycleStart(t, q) ==
    /\ qSnap[TUser(t)] # Null
    /\ qSnap[TUser(t)] > questions[q].created_at

\* C18: a reminder is attempted only for a question whose resolved_at is
\* not set and only for a target row whose user had no message in the
\* group newer than the question when the cycle started; a resolved
\* question is never handled by the send phase.
C18_NoReminderAfterResponse ==
    /\ [](qPc = "send" =>
            /\ ~QResolved(qRow)
            /\ \A k \in 1..Len(qTodo) :
                  /\ question_targets[qTodo[k]].question_id = qRow
                  /\ ~PostedAtCycleStart(qTodo[k], qRow))
    /\ [][QSendStep =>
            /\ ~QResolved(qRow)
            /\ ~PostedAtCycleStart(Head(qTodo), qRow)
            /\ \A t \in TIds :
                  SendsOf(t)' # SendsOf(t) => t = Head(qTodo)]_vars

\* a reminder was sent to one target of a question by a cycle later than
\* the one that marked the other target responded
C18_Witness ==
    \E q \in QIds : \E a, b \in TargetsOf(q) :
        /\ ~QResolved(q)
        /\ question_targets[a].responded_at # Null
        /\ question_targets[b].reminded_at # Null
        /\ SendsOf(b) = 1 /\ SendsOf(a) = 0
        /\ question_targets[a].responded_at
              < question_targets[b].reminded_at

QRemindAt(t) == questions[question_targets[t].question_id].remind_at

\* C20: a money request is inserted with remind_at = now + 20 s and a
\* question with remind_at = created_at + 30 s, created_at being the time
\* of the insert; no reminder of a money request or of a question target
\* is attempted or sent, and no reminded_at is written, at a time before
\* the remind_at of the obligation.
C20_RemindAtAndNoEarlyReminder ==
    /\ [](/\ remPc \in {"send", "mark"} =>
                now >= money_requests[remRow].remind_at
          /\ qPc = "send" => now >= questions[qRow].remind_at
          /\ \A i \in Ids :
                Reminded(i) => money_requests[i].reminded_at
                                 >= money_requests[i].remind_at
          /\ \A t \in TIds :
                TReminded(t) =>
                    question_targets[t].reminded_at >= QRemindAt(t))
    /\ [][/\ Len(money_requests') > Len(money_requests) =>
                money_requests'[Len(money_requests')].remind_at
                  = now + DelaySec
          /\ Len(questions') > Len(questions) =>
                /\ questions'[Len(questions')].created_at = now
                /\ questions'[Len(questions')].remind_at
                     = questions'[Len(questions')].created_at
                         + QuestionDelaySec
          /\ \A i \in Ids :
                (\/ sends'[i] # sends[i]
                 \/ money_requests'[i].reminded_at
                      # money_requests[i].reminded_at)
                => now >= money_requests[i].remind_at
          /\ \A t \in TIds :
                (\/ SendsOf(t)' # SendsOf(t)
                 \/ question_targets'[t].reminded_at
                      # question_targets[t].reminded_at)
                => now >= QRemindAt(t)]_vars

\* a money request and a question target have both been reminded
C20_Witness ==
    /\ \E i \in Ids : Reminded(i) /\ sends[i] = 1
    /\ \E t \in TIds : TReminded(t) /\ SendsOf(t) = 1

\* ------------------------------------------------- concurrent schedulers

\* C26: with two instances of reminder_loop on one store no money request
\* has more than one successful send, and a reminded_at that is set is not
\* written a second time.
C26_NoDoubleSendNoDoubleMark ==
    /\ [](\A i \in Ids : sends[i] <= 1)
    /\ [][\A i \in Ids :
            Reminded(i) => money_requests'[i].reminded_at
                             = money_requests[i].reminded_at]_vars

\* ------------------------------------------------------- the eviction

\* C23: the cleanup that follows the insertion of an id evicts ids inserted
\* earliest, so the id inserted by the same step, the most recent one,
\* stays in the set.
C23_EvictsOldestKeepsNewest ==
    [][\A s \in Slots :
         (tasks[s].pc = "new" /\ tasks'[s].pc = "llm")
           => tasks[s].id \in processed_message_ids']_vars

\* ------------------------------------------------------ service order

\* the select of this step took row i: it goes on to the send of i or
\* writes the skip of i
SelectedNow(i) ==
    /\ SelectStep
    /\ \/ remRow' = i
       \/ Unreminded(i) /\ money_requests'[i].reminded_at # Null

\* C22: the row a cycle of reminder_loop selects has a remind_at not less
\* than that of the row whose send failed in the cycle before and not less
\* than that of any row reminded so far (every reminded row was selected
\* by an earlier cycle): from cycle to cycle the selected remind_at never
\* decreases.
C22_SelectedRemindAtNonDecreasing ==
    [][\A i \in Ids :
         SelectedNow(i) =>
            /\ lastFailed # 0 =>
                  money_requests[lastFailed].remind_at
                    <= money_requests[i].remind_at
            /\ \A j \in Ids :
                  Reminded(j) => money_requests[j].remind_at
                                   <= money_requests[i].remind_at]_vars

\* a row is selected again after its send failed, an older row was
\* reminded before, and a row created after that reminder waits
C22_Witness ==
    \E i, j, k \in Ids :
        /\ remPc = "send" /\ remRow = i /\ lastFailed = i
        /\ Reminded(j)
        /\ money_requests[j].remind_at < money_requests[i].remind_at
        /\ Unreminded(k)
        /\ money_requests[k].remind_at - DelaySec
              > money_requests[j].reminded_at
        /\ k # i

\* ----------------------------------------------------- ReminderService

\* C21: a call of process_due_reminders leaves a money request that was due
\* and unreminded, whose group exists and whose send succeeded, with
\* reminded_at set to the time of the call; a request whose remind_at is
\* later than the time of the call is not written and not sent.
C21_DueMarkedFutureUntouched ==
    [][\A i \in Ids :
         /\ (/\ money_requests[i].remind_at <= now
             /\ Unreminded(i)
             /\ money_requests[i].group_id \in groups
             /\ sends'[i] = sends[i] + 1)
            => money_requests'[i].reminded_at = now
         /\ money_requests[i].remind_at > now
            => /\ money_requests'[i] = money_requests[i]
               /\ sends'[i] = sends[i]]_vars

\* one call has marked a due request after a successful send and has left
\* a request of later remind_at alone
C21_Witness ==
    \E i, j \in Ids :
        /\ Reminded(i) /\ sends[i] = 1
        /\ money_requests[i].reminded_at >= money_requests[i].remind_at
        /\ money_requests[j].remind_at > now
        /\ Unreminded(j) /\ sends[j] = 0
        /\ money_requests[i].reminded_at = now

\* -------------------------------------------------- question send failures

\* C24: the reminded_at of a target row is written only by the step that
\* sent its reminder with success; a step whose send failed leaves the
\* row's reminded_at null and the cycle goes on with the rows that remain.
C24_TargetMarkedOnlyOnSuccess ==
    [][/\ \A t \in TIds :
            question_targets'[t].reminded_at # question_targets[t].reminded_at
            => /\ QSendStep /\ t = Head(qTodo)
               /\ ~TReminded(t)
               /\ SendsOf(t)' = SendsOf(t) + 1
       /\ \A t \in TIds :
            (QSendStep /\ t = Head(qTodo) /\ SendsOf(t)' = SendsOf(t))
            => /\ question_targets'[t].reminded_at = Null
               /\ Tail(qTodo) # <<>> =>
                     qPc' = "send" /\ qTodo' = Tail(qTodo)]_vars

\* the send to the first row of a question failed and the second row was
\* reminded by the same cycle
C24_Witness ==
    \E q \in QIds : \E a, b \in TargetsOf(q) :
        /\ a < b
        /\ TFresh(a) /\ SendsOf(a) = 0
        /\ TReminded(b) /\ SendsOf(b) = 1
        /\ question_targets[b].reminded_at = questions[q].remind_at

\* ------------------------------------------------- check_for_responses

\* C25: a responded_at is written only for a target row whose user has a
\* message in the group newer than the question, and a responded_at that
\* is set is never written again, whatever is posted afterwards and
\* however often the question is examined.
C25_RespondedWrittenOnce ==
    [][\A t \in TIds :
         /\ question_targets[t].responded_at # Null =>
               question_targets'[t].responded_at
                 = question_targets[t].responded_at
         /\ question_targets'[t].responded_at
               # question_targets[t].responded_at
            => /\ QCycleStart
               /\ PostedAfter(t, question_targets[t].question_id)
               /\ question_targets'[t].responded_at = now]_vars

\* a target was marked, its user posted again, and a later examination
\* of the question (the one that resolved it) left the mark as it was
C25_Witness ==
    \E q \in QIds : \E a \in TargetsOf(q) :
        /\ QResolved(q)
        /\ question_targets[a].responded_at # Null
        /\ question_targets[a].responded_at < posted[TUser(a)]
        /\ posted[TUser(a)] < questions[q].resolved_at

\* ------------------------------------------------------------ 1:1 chats

Direct(m) == EventGroup(m) = NoGroup

\* C27: no money request and no question belongs to no group, no question
\* stems from an event without a group, every target row belongs to a
\* question, a task of an event without a group never waits for a
\* classifier, and when such a task ends its message has been saved and
\* its reply sent.
C27_DirectChatCreatesNothing ==
    /\ [](/\ \A i \in Ids : money_requests[i].group_id # NoGroup
          /\ \A q \in QIds : /\ questions[q].group_id # NoGroup
                              /\ ~Direct(questions[q].message_id)
          /\ \A t \in TIds : question_targets[t].question_id \in QIds
          /\ \A s \in Slots :
                (tasks[s].pc = "gather" /\ Direct(tasks[s].id))
                  => tasks[s].money # "wait" /\ tasks[s].question # "wait")
    /\ [][\A s \in Slots :
            (/\ tasks[s].pc = "gather" /\ Direct(tasks[s].id)
             /\ tasks'[s].pc = "free")
            => /\ messages[tasks[s].id] >= 1
               /\ replies[tasks[s].id] >= 1
               /\ UNCHANGED <<money_requests, questions,
                              question_targets>>]_vars

\* an event without a group has been handled to the end: one call of the
\* LLM (the reply), the message saved, the reply sent
C27_Witness ==
    \E m \in EventIds :
        /\ Direct(m)
        /\ llmCalls[m] = 1 /\ messages[m] = 1 /\ replies[m] = 1
        /\ \A s \in Slots : tasks[s].pc = "free"

\* ------------------------------------------------- rejected duplicates

\* a row of group g and requester u whose remind_at is still ahead
ActiveRow(g, u) ==
    \E i \in Ids : /\ money_requests[i].group_id = g
                   /\ money_requests[i].requester_user_id = u
                   /\ money_requests[i].remind_at > now

\* C28: when the classifier says yes and a row of the same group and
\* requester with remind_at ahead exists, the step of detect_money_request
\* leaves money_requests as it is and ends done, not failed; it touches
\* neither the save nor the reply of the event, and the task ends only
\* with its message saved and its reply sent.
C28_DuplicateIsNoOp ==
    [][\A s \in Slots :
         /\ (/\ InGather(s)
             /\ tasks[s].money = "wait" /\ tasks'[s].money # "wait"
             /\ answer'.kind = "money" /\ answer'.v # "none"
             /\ ActiveRow(EventGroup(tasks[s].id), EventUser(tasks[s].id)))
            => /\ answer'.v = "duplicate"
               /\ UNCHANGED <<money_requests, sends>>
               /\ tasks'[s].money = "done"
               /\ tasks'[s].save = tasks[s].save
               /\ tasks'[s].reply = tasks[s].reply
               /\ UNCHANGED <<messages, replies>>
         /\ (InGather(s) /\ tasks'[s].pc = "free")
            => /\ tasks[s].save = "done" /\ tasks[s].reply = "done"
               /\ messages[tasks[s].id] >= 1
               /\ replies[tasks[s].id] >= 1]_vars

\* the last creation was rejected as a duplicate and the task of that
\* event has all four awaitables done
C28_Witness ==
    /\ answer = [kind |-> "money", v |-> "duplicate"]
    /\ Len(money_requests) = 1
    /\ \E s \in Slots :
          /\ InGather(s)
          /\ EventGroup(tasks[s].id) = money_requests[1].group_id
          /\ SubsOf(tasks[s]) = <<"done", "done", "done", "done">>
          /\ messages[tasks[s].id] = 2 /\ replies[tasks[s].id] = 2

\* --------------------------------------------------- senders and groups

Handling(s) == resolved[s].pc = "handling"

NoTwoRows(R) == \A i, j \in 1..Len(R) : R[i] = R[j] => i = j

\* C29: no platform id has two rows in users or in groups, the id a task
\* obtained is the id of the row of its platform id, and two tasks under
\* way for the same sender (the same group) hold the same id.
C29_OneRowPerPlatformId ==
    /\ NoTwoRows(idRows.users) /\ NoTwoRows(idRows.groups)
    /\ \A s \in Slots : Handling(s) =>
          /\ resolved[s].user_id \in 1..Len(idRows.users)
          /\ idRows.users[resolved[s].user_id] = resolved[s].line_user
          /\ resolved[s].line_group # NoGroup =>
                /\ resolved[s].group_id \in 1..Len(idRows.groups)
                /\ idRows.groups[resolved[s].group_id]
                     = resolved[s].line_group
    /\ \A s, t \in Slots : (Handling(s) /\ Handling(t)) =>
          /\ resolved[s].line_user = resolved[t].line_user
               => resolved[s].user_id = resolved[t].user_id
          /\ resolved[s].line_group = resolved[t].line_group
               => resolved[s].group_id = resolved[t].group_id

\* two tasks under way for one sender in one group, both unseen before
C29_Witness ==
    /\ Len(idRows.users) = 1 /\ Len(idRows.groups) = 1
    /\ \E s, t \in Slots :
          /\ s # t /\ Handling(s) /\ Handling(t)
          /\ resolved[s].line_user = resolved[t].line_user
          /\ resolved[s].line_group = resolved[t].line_group
          /\ resolved[s].line_group # NoGroup

\* ------------------------------------------------- questions in the queue

\* C30: when a cycle starts while some due unresolved question has a
\* target row that is neither responded nor reminded, and no target of a
\* due question has posted, the cycle selects such a question and goes on
\* to send a reminder: a question whose outstanding targets have all been
\* reminded is not selected in its place.
C30_SelectsQuestionWithFreshTarget ==
    [][(/\ QCycleStart
        /\ \A q \in QDueIds(now) : Responding(q) = {}
        /\ \E q \in QDueIds(now) : \E t \in TargetsOf(q) : TFresh(t))
       => qPc' = "send"]_vars

\* the except handler has written reminded_at of question q
QHandled(q) == questions[q].reminded_at # Null

\* C31: a question whose processing raised, and on which the handler wrote
\* reminded_at, is not selected again: no later cycle goes on to send
\* reminders for it.
C31_HandledNotSelectedAgain ==
    [][\A q \in QIds :
          (QHandled(q) /\ qPc = "sleep" /\ qPc' = "send") => qRow' # q]_vars

\* ------------------------------------------- a send that keeps failing

\* a send for row i, or for a row that is due no earlier than row i,
\* returns False
NotEarlierSendFails(i) ==
    /\ SendFails /\ i \in Ids
    /\ money_requests[remRow].remind_at >= money_requests[i].remind_at

\* C32: a row whose send keeps failing holds back no row with a later
\* remind_at: with the scheduler cycling, every obligation that stays
\* resolvable is eventually selected and marked after a successful send,
\* provided the sends for it and for the rows due no earlier than it
\* eventually stop failing, whatever the sends for the rows due before it
\* do.
C32_FailingHeadDoesNotBlock ==
    \A i \in 1..MaxReqLive :
        <>[][~NotEarlierSendFails(i)]_vars => NotLost(i)

\* ------------------------------------- classifier answers that do not parse

\* the checker service that handled the last message got text that
\* json.loads rejected
InvalidAnswer(a) ==
    /\ a.kind \in {"money_checker", "question_checker"}
    /\ a.v.response = "invalid"

\* C33: when the classifier's response is not valid JSON the verdict of the
\* checker service is negative, and process_group_message saves no payment
\* request and no question.
C33_InvalidJsonIsNegative ==
    [][InvalidAnswer(answer') =>
         /\ ~answer'.v.verdict
         /\ UNCHANGED <<money_requests, questions>>]_vars

\* --------------------------------------- ReminderService and failed sends

\* C34: a call of process_due_reminders writes the reminded_at of a money
\* request only when its send_message_to_group returned True; a request
\* whose send returned False keeps reminded_at null for the next call.
C34_MarkedOnlyWhenSendSucceeded ==
    [][\A i \in Ids :
         (Unreminded(i) /\ money_requests'[i].reminded_at # Null)
            => sends'[i] = sends[i] + 1]_vars

\* -------------------------------------------------- stopping the loop

\* C35: once stop_reminder_loop was called after a call of
\* start_reminder_loop, that call returns: with time passing and the tasks
\* running, the loop ends.
C35_StopEndsLoop ==
    \A k \in LoopSlots : loops[k].stopped ~> (loops[k].pc = "done")

\* ------------------------------------------------- the reminder interval

\* a reminder for user u was recorded less than the interval ago
RecentlyReminded(u) ==
    \E r \in TIds :
        /\ question_targets[r].target_user_id = u
        /\ question_targets[r].reminded_at # Null
        /\ question_targets[r].reminded_at >= now - IntervalSec

\* C36: a call of process_all_inactive_users sends nothing to a user for
\* whom a reminder was recorded less than reminder_interval_hours before,
\* whatever other rows of question_targets the user has.
C36_NoResendWithinInterval ==
    [][\A r \in TIds :
          RecentlyReminded(question_targets[r].target_user_id)
             => SendsOf(r)' = SendsOf(r)]_vars

\* -------------------------------------------------- the size of the set

\* C37: between the steps of the tasks the set of handled ids holds at most
\* DedupCap ids, whatever ids are delivered and however often.
C37_DedupSetBounded == Cardinality(processed_message_ids) <= DedupCap

\* the cleanup has run, the set is at its cap again, and an id was
\* delivered more than once
C37_Witness ==
    /\ evicted # {}
    /\ Cardinality(processed_message_ids) = DedupCap
    /\ \E m \in EventIds : deliveries[m] >= 2
    /\ \A s \in Slots : tasks[s].pc # "new"

\* ------------------------------------- the id that triggered the cleanup

\* the task of slot s passes the guard with id m in this step
PassesGuard(s, m) ==
    /\ tasks[s].pc = "new" /\ tasks[s].id = m
    /\ tasks'[s].pc = "llm"

\* C38: the cleanup a task triggers leaves the id of that task alone: the
\* ids removed by the step in which a task passes the guard with id m do
\* not include m, so the guard finds m in the set when the event is
\* delivered again at once.
C38_OwnIdSurvivesCleanup ==
    [][\A m \in EventIds :
         (\E s \in Slots : PassesGuard(s, m))
            => /\ m \notin (processed_message_ids \cup {m})
                              \ processed_message_ids'
               /\ \A s \in Slots :
                     (tasks'[s].pc = "new" /\ tasks'[s].id = m)
                        => m \in processed_message_ids']_vars

\* ---------------------------------------- a question with nobody left

\* question q has no target row with responded_at null
NobodyLeft(q) ==
    \A t \in TIds : question_targets[t].question_id = q
                       => question_targets[t].responded_at # Null

\* C39: a cycle whose check_for_responses finds no target row with
\* responded_at null for the question it selected leaves that question
\* with resolved_at set, so the question is not due in the cycles that
\* follow.
C39_NobodyLeftIsResolved ==
    [][(/\ QCycleStart
        /\ QDueIds(now) # {}
        /\ \A q \in QOldestDue(now) : NobodyLeft(q))
       => \E q \in QOldestDue(now) :
             /\ questions'[q].resolved_at # Null
             /\ q \notin QDueIds(now)']_vars
====
